---- MODULE Spec2Model ----
(***************************************************************************)
(* Model of valve_control/relay_controller.py: three GPIO relays driven    *)
(* from the textual hex dump that `amidi -d` writes for incoming MIDI.     *)
(* Characters are one-character strings; the accumulation buffer is a      *)
(* sequence of them.                                                       *)
(***************************************************************************)
EXTENDS Integers, Sequences, FiniteSets, TLC

VARIABLES
    pc,          \* position of run_forever
    proc,        \* the amidi capture subprocess
    buffer,      \* run_forever's local `buffer`
    gpio,        \* raw content last written to /sys/class/gpio/gpioN/value, per relay index
    base_value,  \* MIDIRelayController.base_value
    channel,     \* MIDIRelayController.channel
    pending,     \* characters the capture source is still going to emit (scripted source)
    line,        \* history: characters emitted by the source in the line being received
    emitted,     \* history: bitmask passed to set_value by the latest step of run_forever, or NoAction
    applies,     \* history: number of set_value calls made for the line being received
    before,      \* history: gpio as it was before the latest step that can write it
    broken,      \* relay indexes whose gpioN/direction and gpioN/value files raise OSError when opened
    exported,    \* per relay index: /sys/class/gpio/gpioN exists
    direction,   \* per relay index: content of gpioN/direction ("none" while not exported)
    denied,      \* writes to /sys/class/gpio/export and unexport raise PermissionError
    relay,       \* per relay index: life of the Relay object
    prior        \* history: direction of each channel before the program touched it

bank == <<exported, direction, denied, relay, prior>>

vars == <<pc, proc, buffer, gpio, base_value, channel, pending, line, emitted, applies, before,
          broken, exported, direction, denied, relay, prior>>

-----------------------------------------------------------------------------
(* Bounds of the model *)

MaxLen == 5          \* longest line the free source emits
MaxFrames == 2       \* MIDI messages in a scripted stream

Alphabet == {"9", "3", "C", "8", " ", "z"}
FirstLineAlphabet == {"9", "3", "C", " "}   \* the first line is dropped whatever it holds
BaseValues == {-3, 0, 5, 8, 13}
Channels == {4, 10}
DefaultChannel == 4

NoAction == -1
ValueError == -1

-----------------------------------------------------------------------------
(* Program constants *)

CONTROL_MASK == 240
CONTROL_NOTE_OFF == 128
CONTROL_NOTE_ON == 144
CHANNEL_MASK == 15

NOTE_TO_VALUE == (60 :> 1) @@ (61 :> 2) @@ (62 :> 3) @@ (63 :> 4)
                 @@ (64 :> 5) @@ (65 :> 6) @@ (66 :> 7)

ON_VALUE == "0"
OFF_VALUE == "1"

RelayIndex == 0..2

-----------------------------------------------------------------------------
(* Python primitives the code relies on *)

\* ASCII whitespace of bytes.split() and bytes.rstrip()
Whitespace == {" ", "\t", "\n", "\r", "\f"}

HexLower == <<"0","1","2","3","4","5","6","7","8","9","a","b","c","d","e","f">>
HexUpper == <<"0","1","2","3","4","5","6","7","8","9","A","B","C","D","E","F">>

\* value of each hexadecimal digit, either case
HexDigit ==
    [c \in {HexLower[i] : i \in 1..16} \cup {HexUpper[i] : i \in 1..16} |->
        (CHOOSE i \in 1..16 : c = HexLower[i] \/ c = HexUpper[i]) - 1]

IsHexDigit(c) == c \in DOMAIN HexDigit

DigitValue(c) == HexDigit[c]

\* a & b on non-negative integers
RECURSIVE BitAnd(_, _)
BitAnd(a, b) ==
    IF a = 0 \/ b = 0 THEN 0
    ELSE (a % 2) * (b % 2) + 2 * BitAnd(a \div 2, b \div 2)

\* bytes.rstrip()
RECURSIVE RStrip(_)
RStrip(s) ==
    IF s # <<>> /\ s[Len(s)] \in Whitespace THEN RStrip(SubSeq(s, 1, Len(s) - 1)) ELSE s

\* bytes.split(): maximal runs of non-whitespace characters
RECURSIVE SplitFrom(_, _, _)
SplitFrom(s, cur, acc) ==
    IF s = <<>> THEN (IF cur = <<>> THEN acc ELSE Append(acc, cur))
    ELSE IF Head(s) \in Whitespace
         THEN SplitFrom(Tail(s), <<>>, IF cur = <<>> THEN acc ELSE Append(acc, cur))
         ELSE SplitFrom(Tail(s), Append(cur, Head(s)), acc)

Split(s) == SplitFrom(s, <<>>, <<>>)

RECURSIVE DigitsValue(_, _)
DigitsValue(tok, acc) ==
    IF tok = <<>> THEN acc
    ELSE IF Head(tok) = "_" THEN DigitsValue(Tail(tok), acc)
         ELSE DigitsValue(Tail(tok), 16 * acc + DigitValue(Head(tok)))

\* int(b"0x" + data, base=16): after the prefix, hex digits with single
\* underscores allowed before a digit; anything else is a ValueError.
IntBase16(data) ==
    IF /\ data # <<>>
       /\ \A i \in 1..Len(data) :
            \/ IsHexDigit(data[i])
            \/ data[i] = "_" /\ i < Len(data) /\ IsHexDigit(data[i + 1])
    THEN DigitsValue(data, 0)
    ELSE ValueError

\* dict.get(key, default)
DictGet(d, key, default) == IF key \in DOMAIN d THEN d[key] ELSE default

-----------------------------------------------------------------------------
(* class Relay *)

RawValueToValue(raw_value) ==
    IF RStrip(raw_value) = <<ON_VALUE>> THEN "ON"
    ELSE IF RStrip(raw_value) = <<OFF_VALUE>> THEN "OFF"
    ELSE "ValueError"

ValueToRawValue(value) ==
    IF value = "ON" THEN <<ON_VALUE>>
    ELSE IF value = "OFF" THEN <<OFF_VALUE>>
    ELSE <<"ValueError">>

\* what open(value_path, "rb").read() returns: sysfs renders the level and a newline
ReadValueFile(g, i) == Append(g[i], "\n")

\* Relay.value getter
RelayValue(g, i) == RawValueToValue(ReadValueFile(g, i))

\* Relay._set_raw_value: the file content after the write
SetRawValue(g, i, raw) == [g EXCEPT ![i] = raw]

\* Relay.value setter
SetRelayValue(g, i, value) == SetRawValue(g, i, ValueToRawValue(value))

\* the bitmask read back from the three outputs
ReadMask(g) ==
    (IF RelayValue(g, 0) = "ON" THEN 1 ELSE 0)
    + (IF RelayValue(g, 1) = "ON" THEN 2 ELSE 0)
    + (IF RelayValue(g, 2) = "ON" THEN 4 ELSE 0)

-----------------------------------------------------------------------------
(* class MIDIRelayController *)

\* Outcome of a call: did it raise, the relay files after it, the bitmask it
\* handed to set_value (NoAction when set_value was not called).
Outcome(raised, g, action) == [raised |-> raised, gpio |-> g, action |-> action]

\* open() of gpioN/direction or gpioN/value: it raises OSError when the
\* directory is missing (channel not exported) or the file is faulty
RelayFilesOpen(i) == exported[i] /\ i \notin broken

\* faulty variant of SetValue: the third relay driven from bit 0x02 (copied line not edited)
SetValueRelay2FromBit1(g, value) ==
    IF value < 0 \/ value > 7 THEN Outcome(TRUE, g, value)
    ELSE IF ~RelayFilesOpen(0) THEN Outcome(TRUE, g, value)
    ELSE
    LET g0 == SetRelayValue(g, 0, IF BitAnd(value, 1) # 0 THEN "ON" ELSE "OFF")
    IN  IF ~RelayFilesOpen(1) THEN Outcome(TRUE, g0, value)
        ELSE
        LET g1 == SetRelayValue(g0, 1, IF BitAnd(value, 2) # 0 THEN "ON" ELSE "OFF")
        IN  IF ~RelayFilesOpen(2) THEN Outcome(TRUE, g1, value)
            ELSE Outcome(FALSE,
                         SetRelayValue(g1, 2, IF BitAnd(value, 2) # 0 THEN "ON" ELSE "OFF"),
                         value)

\* faulty variant of SetValue: no range check, the value cut to its low three bits
SetValueTruncates(g, value) ==
    IF FALSE THEN Outcome(TRUE, g, value)
    ELSE IF ~RelayFilesOpen(0) THEN Outcome(TRUE, g, value)
    ELSE
    LET g0 == SetRelayValue(g, 0, IF BitAnd(value % 8, 1) # 0 THEN "ON" ELSE "OFF")
    IN  IF ~RelayFilesOpen(1) THEN Outcome(TRUE, g0, value)
        ELSE
        LET g1 == SetRelayValue(g0, 1, IF BitAnd(value % 8, 2) # 0 THEN "ON" ELSE "OFF")
        IN  IF ~RelayFilesOpen(2) THEN Outcome(TRUE, g1, value)
            ELSE Outcome(FALSE,
                         SetRelayValue(g1, 2, IF BitAnd(value % 8, 4) # 0 THEN "ON" ELSE "OFF"),
                         value)

\* set_value: ValueError outside 0..7, else the three relays from bits 0, 1, 2
\* in index order; the OSError of a relay's value file propagates at once
SetValue(g, value) ==
    IF value < 0 \/ value > 7 THEN Outcome(TRUE, g, value)
    ELSE IF ~RelayFilesOpen(0) THEN Outcome(TRUE, g, value)
    ELSE
    LET g0 == SetRelayValue(g, 0, IF BitAnd(value, 1) # 0 THEN "ON" ELSE "OFF")
    IN  IF ~RelayFilesOpen(1) THEN Outcome(TRUE, g0, value)
        ELSE
        LET g1 == SetRelayValue(g0, 1, IF BitAnd(value, 2) # 0 THEN "ON" ELSE "OFF")
        IN  IF ~RelayFilesOpen(2) THEN Outcome(TRUE, g1, value)
            ELSE Outcome(FALSE,
                         SetRelayValue(g1, 2, IF BitAnd(value, 4) # 0 THEN "ON" ELSE "OFF"),
                         value)

\* faulty variant of SetNoteOn: the note taken from the last data byte
SetNoteOnLastValue(g, self_channel, self_base, ch, values) ==
    IF ch # self_channel THEN Outcome(FALSE, g, NoAction)
    ELSE IF values = <<>> THEN Outcome(FALSE, g, NoAction)
    ELSE SetValue(g, DictGet(NOTE_TO_VALUE, values[Len(values)], self_base))

\* faulty variant of SetNoteOn: no channel filter
SetNoteOnAnyChannel(g, self_channel, self_base, ch, values) ==
    IF values = <<>> THEN Outcome(FALSE, g, NoAction)
    ELSE SetValue(g, DictGet(NOTE_TO_VALUE, values[1], self_base))

\* _set_note_on
SetNoteOn(g, self_channel, self_base, ch, values) ==
    IF ch # self_channel THEN Outcome(FALSE, g, NoAction)
    ELSE IF values = <<>> THEN Outcome(FALSE, g, NoAction)
    ELSE SetValue(g, DictGet(NOTE_TO_VALUE, values[1], self_base))

\* faulty variant of DecodeError: the ValueError of int() is not caught
DecodeErrorEscapes(g) == Outcome(TRUE, g, NoAction)

\* _callback, except ValueError: a warning is logged and the callback returns
DecodeError(g) == Outcome(FALSE, g, NoAction)

\* faulty variant of NoteOff: the note-off restores the base value
NoteOffRestoresBase(g, self_base) == SetValue(g, self_base)

\* _callback, note-off branch: `_logger.debug` is an attribute of the function
\* _logger, not of the logger it returns, so the statement raises AttributeError
NoteOff(g, self_base) == Outcome(TRUE, g, NoAction)

\* _callback
Callback(g, self_channel, self_base, byte_buffer) ==
    IF byte_buffer = <<>> THEN Outcome(FALSE, g, NoAction)
    ELSE
    LET byte_array == Split(byte_buffer)
        midi_hex == [i \in 1..Len(byte_array) |-> IntBase16(byte_array[i])]
    IN  IF \E i \in 1..Len(midi_hex) : midi_hex[i] = ValueError
        THEN DecodeError(g)
        ELSE IF midi_hex = <<>>
        THEN Outcome(FALSE, g, NoAction)              \* nothing to unpack, return
        ELSE
        LET control == Head(midi_hex)
            values == Tail(midi_hex)
        IN  IF BitAnd(control, CONTROL_MASK) = CONTROL_NOTE_OFF
            THEN NoteOff(g, self_base)
            ELSE IF BitAnd(control, CONTROL_MASK) = CONTROL_NOTE_ON
            THEN SetNoteOn(g, self_channel, self_base,
                           BitAnd(control, CHANNEL_MASK) + 1, values)
            ELSE Outcome(FALSE, g, NoAction)

-----------------------------------------------------------------------------
(* The capture source *)

\* amidi -d: a newline before each status byte, a space before each data
\* byte, every byte as two upper-case hex digits
Hex2(b) == <<HexUpper[(b \div 16) + 1], HexUpper[(b % 16) + 1]>>

RECURSIVE DumpData(_)
DumpData(bytes) ==
    IF bytes = <<>> THEN <<>> ELSE <<" ">> \o Hex2(Head(bytes)) \o DumpData(Tail(bytes))

DumpMessage(msg) == <<"\n">> \o Hex2(Head(msg)) \o DumpData(Tail(msg))

RECURSIVE DumpStream(_)
DumpStream(msgs) ==
    IF msgs = <<>> THEN <<>> ELSE DumpMessage(Head(msgs)) \o DumpStream(Tail(msgs))

\* Messages of the scripted streams: note-on on channel 4 for every mapped
\* note and an unmapped one, a note-on without data, a note-on on channel 10,
\* a program change, a note-off.  The velocity 62 is itself a mapped note number.
Messages ==
    {<<147, n, 62>> : n \in 60..66} \cup
    {<<147, 99, 62>>, <<147>>, <<153, 61, 62>>, <<195, 60>>, <<131, 60, 0>>}

Scripts == UNION {[1..n -> Messages] : n \in 1..MaxFrames}

-----------------------------------------------------------------------------
(* State after MIDIRelayController.__init__: every relay set up and OFF *)

Constructed ==
    /\ pc = "CREATED"
    /\ proc = "none"
    /\ buffer = <<>>
    /\ gpio = [i \in RelayIndex |-> <<OFF_VALUE>>]
    /\ base_value \in BaseValues
    /\ line = <<>>
    /\ emitted = NoAction
    /\ applies = 0
    /\ before = [i \in RelayIndex |-> <<OFF_VALUE>>]
    /\ broken = {}
    /\ exported = [i \in RelayIndex |-> TRUE]
    /\ direction = [i \in RelayIndex |-> "out"]
    /\ denied = FALSE
    /\ relay = [i \in RelayIndex |-> "alive"]
    /\ prior = [i \in RelayIndex |-> "none"]

Init == Constructed /\ channel = DefaultChannel /\ pending = <<>>

InitMsg == Constructed /\ channel \in Channels /\ \E s \in Scripts : pending = DumpStream(s)

-----------------------------------------------------------------------------
(* run_forever *)

\* faulty variant of RunForeverStart: the base value is not applied
RunForeverStartSkipsBase ==
    /\ pc = "CREATED"
    /\ pc' = "BASE_APPLIED"
    /\ emitted' = NoAction
    /\ buffer' = <<>>
    /\ before' = gpio
    /\ UNCHANGED <<gpio, proc, base_value, channel, pending, line, applies>>
    /\ UNCHANGED <<broken, bank>>

\* self.set_value(self.base_value); buffer = []
RunForeverStart ==
    /\ pc = "CREATED"
    /\ LET r == SetValue(gpio, base_value)
       IN  /\ pc' = IF r.raised THEN "RAISED" ELSE "BASE_APPLIED"
           /\ gpio' = r.gpio
           /\ emitted' = r.action
    /\ buffer' = <<>>
    /\ before' = gpio
    /\ UNCHANGED <<proc, base_value, channel, pending, line, applies>>
    /\ UNCHANGED <<broken, bank>>

\* with amidi_process(self.port) as process
StartCapture ==
    /\ pc = "BASE_APPLIED"
    /\ pc' = "READLINE"
    /\ proc' = "running"
    /\ emitted' = NoAction
    /\ before' = gpio
    /\ UNCHANGED <<buffer, gpio, base_value, channel, pending, line, applies>>
    /\ UNCHANGED <<broken, bank>>

\* process.stdout.readline(), one character of it: the first line is read and dropped
ReadlineChar(c) ==
    /\ pc = "READLINE"
    /\ proc = "running"
    /\ before' = gpio
    /\ IF c = "\n"
       THEN pc' = "RUNNING" /\ line' = <<>>
       ELSE pc' = pc /\ line' = Append(line, c)
    /\ UNCHANGED <<proc, buffer, gpio, base_value, channel, emitted, applies>>
    /\ UNCHANGED <<broken, bank>>

\* faulty variant of AmidiProcessExit: the context manager has no finally clause
AmidiProcessExitNoKill(p) == p

\* amidi_process, finally: process.kill() on every way out of the with block
AmidiProcessExit(p) == "killed"

\* faulty variant of LoopChar: a newline does not clear the buffer
LoopCharKeepsBuffer(c) ==
    /\ pc = "RUNNING"
    /\ proc = "running"
    /\ before' = gpio
    /\ IF c = "\n"
       THEN /\ line' = <<>>
            /\ emitted' = NoAction
            /\ applies' = 0
            /\ UNCHANGED <<pc, proc, gpio, buffer>>
       ELSE LET r == Callback(gpio, channel, base_value, Append(buffer, c))
            IN  /\ buffer' = Append(buffer, c)
                /\ line' = Append(line, c)
                /\ gpio' = r.gpio
                /\ emitted' = r.action
                /\ applies' = IF r.action # NoAction THEN applies + 1 ELSE applies
                /\ pc' = IF r.raised THEN "RAISED" ELSE pc
                /\ proc' = IF r.raised THEN AmidiProcessExit(proc) ELSE proc
    /\ UNCHANGED <<base_value, channel>>
    /\ UNCHANGED <<broken, bank>>

\* next_byte = process.stdout.read(1) returned the character c
LoopChar(c) ==
    /\ pc = "RUNNING"
    /\ proc = "running"
    /\ before' = gpio
    /\ IF c = "\n"
       THEN /\ buffer' = <<>>
            /\ line' = <<>>
            /\ emitted' = NoAction
            /\ applies' = 0
            /\ UNCHANGED <<pc, proc, gpio>>
       ELSE LET r == Callback(gpio, channel, base_value, Append(buffer, c))
            IN  /\ buffer' = Append(buffer, c)
                /\ line' = Append(line, c)
                /\ gpio' = r.gpio
                /\ emitted' = r.action
                /\ applies' = IF r.action # NoAction THEN applies + 1 ELSE applies
                /\ pc' = IF r.raised THEN "RAISED" ELSE pc
                /\ proc' = IF r.raised THEN AmidiProcessExit(proc) ELSE proc
    /\ UNCHANGED <<base_value, channel>>
    /\ UNCHANGED <<broken, bank>>

\* faulty variant of ReadEmpty: the loop breaks while poll() is None and warns
\* once the process has exited
ReadEmptyBreaksWhileAlive ==
    /\ pc \in {"READLINE", "RUNNING"}
    /\ proc \in {"closed", "exited"}
    /\ IF pc = "READLINE"
       THEN pc' = "RUNNING" /\ line' = <<>> /\ proc' = proc
       ELSE /\ line' = line
            /\ pc' = IF proc = "closed" THEN "STOPPED" ELSE pc
            /\ proc' = IF proc = "closed" THEN AmidiProcessExit(proc) ELSE proc
    /\ before' = gpio
    /\ UNCHANGED <<buffer, gpio, base_value, channel, pending, emitted, applies>>
    /\ UNCHANGED <<broken, bank>>

\* the read returned b"": end of readline, or break when the process has
\* exited, or the warning branch while poll() is still None
ReadEmpty ==
    /\ pc \in {"READLINE", "RUNNING"}
    /\ proc \in {"closed", "exited"}
    /\ IF pc = "READLINE"
       THEN pc' = "RUNNING" /\ line' = <<>> /\ proc' = proc
       ELSE /\ line' = line
            /\ pc' = IF proc = "exited" THEN "STOPPED" ELSE pc
            /\ proc' = IF proc = "exited" THEN AmidiProcessExit(proc) ELSE proc
    /\ before' = gpio
    /\ UNCHANGED <<buffer, gpio, base_value, channel, pending, emitted, applies>>
    /\ UNCHANGED <<broken, bank>>

\* the capture process closes its output
StreamCloses ==
    /\ proc = "running"
    /\ pending = <<>>
    /\ proc' = "closed"
    /\ UNCHANGED <<pc, buffer, gpio, base_value, channel, pending, line, emitted, applies, before>>
    /\ UNCHANGED <<broken, bank>>

\* the capture process terminates: poll() is not None from now on
ProcessExits ==
    /\ proc \in {"running", "closed"}
    /\ pending = <<>>
    /\ proc' = "exited"
    /\ UNCHANGED <<pc, buffer, gpio, base_value, channel, pending, line, emitted, applies, before>>
    /\ UNCHANGED <<broken, bank>>

-----------------------------------------------------------------------------
(* A source that may emit any character of Alphabet or a newline *)

ReadFirstLine ==
    \E c \in FirstLineAlphabet \cup {"\n"} :
        /\ c # "\n" => Len(line) < MaxLen
        /\ ReadlineChar(c)
        /\ UNCHANGED pending

ReadByte ==
    \E c \in Alphabet \cup {"\n"} :
        /\ c # "\n" => Len(line) < MaxLen
        /\ LoopChar(c)
        /\ UNCHANGED pending

Next ==
    \/ RunForeverStart
    \/ StartCapture
    \/ ReadFirstLine
    \/ ReadByte
    \/ ReadEmpty
    \/ StreamCloses
    \/ ProcessExits

Spec == Init /\ [][Next]_vars

(* A source that emits the dump of a sequence of MIDI messages *)

ScriptFirstLine ==
    /\ pending # <<>>
    /\ ReadlineChar(Head(pending))
    /\ pending' = Tail(pending)

ScriptByte ==
    /\ pending # <<>>
    /\ LoopChar(Head(pending))
    /\ pending' = Tail(pending)

NextMsg ==
    \/ RunForeverStart
    \/ StartCapture
    \/ ScriptFirstLine
    \/ ScriptByte
    \/ ReadEmpty
    \/ StreamCloses
    \/ ProcessExits

SpecMsg == InitMsg /\ [][NextMsg]_vars

(* A source that emits a dump while the relay files may start to fail *)

\* note-on for the first and the last mapped note and for an unmapped one, a note-off
HwMessages == {<<147, 60, 62>>, <<147, 66, 62>>, <<147, 99, 62>>, <<131, 60, 0>>}

HwScripts == UNION {[1..n -> HwMessages] : n \in 1..MaxFrames}

InitHw == Constructed /\ channel = DefaultChannel /\ \E s \in HwScripts : pending = DumpStream(s)

\* from now on open() of a file of relay i raises OSError
ChannelBreaks(i) ==
    /\ i \notin broken
    /\ broken' = broken \cup {i}
    /\ UNCHANGED <<pc, proc, buffer, gpio, base_value, channel, pending, line, emitted, applies,
                   before, bank>>

HardwareFault == \E i \in RelayIndex : ChannelBreaks(i)

NextHw ==
    \/ RunForeverStart
    \/ StartCapture
    \/ ScriptFirstLine
    \/ ScriptByte
    \/ ReadEmpty
    \/ StreamCloses
    \/ ProcessExits
    \/ HardwareFault

SpecHw == InitHw /\ [][NextHw]_vars

\* The loop is never suspended for good and a capture process that has closed
\* its output terminates.
SpecHwLive == SpecHw /\ WF_vars(ReadEmpty) /\ WF_vars(ProcessExits)

-----------------------------------------------------------------------------
(* Life of the relay bank: RelayController.__init__, set_value as a library
   call, and the finalizers of the Relay objects.

   pc = "NEW" while RelayController.__init__ builds the list of relays,
   "INIT_FAILED" once a Relay() has raised, "CREATED" once the bank exists,
   "RAISED" when the latest call on the bank raised to its caller, "DROPPED"
   once the bank is unreferenced.  relay[i] is "none" before Relay() is
   called for index i, "alive" while the object is referenced, "garbage" from
   the moment it is unreferenced until __del__ runs (the interpreter chooses
   when), then "released" when _shut_down returned and "release_raised" when
   it raised.  gpio[i] is the level of the line as gpioN/value renders it. *)

\* values handed to set_value by a caller
MaskInputs == {-3, 2, 5, 8, 13}

\* the hardware before the program starts: a channel may be exported already,
\* as an input or as an output left driven by an earlier run; one channel's
\* files may be faulty; the export files may be closed to this user
InitBank ==
    /\ pc = "NEW"
    /\ proc = "none"
    /\ buffer = <<>>
    /\ pending = <<>>
    /\ line = <<>>
    /\ emitted = NoAction
    /\ applies = 0
    /\ channel = DefaultChannel
    /\ base_value \in {0, 13}
    /\ prior \in [RelayIndex -> {"none", "in", "out"}]
    /\ direction = prior
    /\ exported = [i \in RelayIndex |-> prior[i] # "none"]
    /\ gpio = [i \in RelayIndex |-> IF prior[i] = "out" THEN <<ON_VALUE>> ELSE <<OFF_VALUE>>]
    /\ before = gpio
    /\ broken \in {{}} \cup {{i} : i \in RelayIndex}
    /\ denied \in BOOLEAN
    /\ relay = [i \in RelayIndex |-> "none"]

\* the index of the next Relay() in the list display of RelayController.__init__
NextRelay == CHOOSE i \in RelayIndex : relay[i] = "none" /\ \A j \in RelayIndex : j < i => relay[j] # "none"

\* Relay(channel) for the next index.  _set_up: the export write is tried and
\* its failure tolerated; the read and the write of gpioN/direction and the
\* write of OFF are not guarded, so their OSError leaves Relay.__init__ and
\* RelayController.__init__.  The relays built so far and the one that failed
\* are then unreferenced.  self._original_direction is written here and read
\* nowhere, so the model does not carry it.
ConstructRelay ==
    /\ pc = "NEW"
    /\ LET i == NextRelay
           export_ok == ~exported[i] /\ ~denied
           exists == exported[i] \/ export_ok
       IN  /\ exported' = [exported EXCEPT ![i] = exists]
           /\ IF exists /\ i \notin broken
              THEN /\ direction' = [direction EXCEPT ![i] = "out"]
                   /\ gpio' = SetRelayValue(gpio, i, "OFF")
                   /\ relay' = [relay EXCEPT ![i] = "alive"]
                   /\ pc' = IF i = 2 THEN "CREATED" ELSE "NEW"
              ELSE /\ direction' = [direction EXCEPT ![i] = IF export_ok THEN "in" ELSE @]
                   /\ gpio' = gpio
                   /\ relay' = [j \in RelayIndex |-> IF j <= i THEN "garbage" ELSE relay[j]]
                   /\ pc' = "INIT_FAILED"
    /\ before' = gpio
    /\ UNCHANGED <<proc, buffer, base_value, channel, pending, line, emitted, applies,
                   broken, denied, prior>>

\* Relay.__del__ -> _shut_down: the write of OFF is not guarded, so its
\* OSError leaves _shut_down before the unexport is tried; the unexport write
\* is tried and its failure logged.  The direction is not written.
Finalize(i) ==
    /\ relay[i] = "garbage"
    /\ IF RelayFilesOpen(i)
       THEN /\ gpio' = SetRelayValue(gpio, i, "OFF")
            /\ exported' = [exported EXCEPT ![i] = denied]
            /\ direction' = [direction EXCEPT ![i] = IF denied THEN @ ELSE "none"]
            /\ relay' = [relay EXCEPT ![i] = "released"]
       ELSE /\ relay' = [relay EXCEPT ![i] = "release_raised"]
            /\ UNCHANGED <<gpio, exported, direction>>
    /\ before' = gpio
    /\ UNCHANGED <<pc, proc, buffer, base_value, channel, pending, line, emitted, applies,
                   broken, denied, prior>>

FinalizeRelay == \E i \in RelayIndex : Finalize(i)

\* a caller of the library calls set_value(value)
ApplyValue(value) ==
    /\ pc \in {"CREATED", "RAISED"}
    /\ LET r == SetValue(gpio, value)
       IN  /\ pc' = IF r.raised THEN "RAISED" ELSE "CREATED"
           /\ gpio' = r.gpio
           /\ emitted' = r.action
    /\ before' = gpio
    /\ UNCHANGED <<proc, buffer, base_value, channel, pending, line, applies, broken, bank>>

ApplyAnyValue == \E value \in MaskInputs : ApplyValue(value)

\* the last reference to the bank goes away: main returns or its exception
\* ends the program
DropBank ==
    /\ pc \in {"CREATED", "RAISED", "BASE_APPLIED"}
    /\ pc' = "DROPPED"
    /\ relay' = [i \in RelayIndex |-> "garbage"]
    /\ UNCHANGED <<proc, buffer, gpio, base_value, channel, pending, line, emitted, applies,
                   before, broken, exported, direction, denied, prior>>

NextBank ==
    \/ ConstructRelay
    \/ ApplyAnyValue
    \/ RunForeverStart
    \/ DropBank
    \/ FinalizeRelay
    \/ HardwareFault

SpecBank == InitBank /\ [][NextBank]_vars

-----------------------------------------------------------------------------
(* Reading a buffer as a MIDI frame, for the properties below *)

\* the numbers a buffer decodes to; malformed when a token is no number
Frame(buf) ==
    LET t == Split(buf)
        b == [i \in 1..Len(t) |-> IntBase16(t[i])]
    IN  [tokens |-> t, bytes |-> b, malformed |-> \E i \in 1..Len(b) : b[i] = ValueError]

Malformed(f) == f.malformed

\* every token is a number and there is at least one
Decodes(f) == f.tokens # <<>> /\ ~f.malformed

\* (status & 0xF0) >> 4
HighNibble(status) == (status \div 16) % 16

IsNoteOff(f) == Decodes(f) /\ HighNibble(f.bytes[1]) = 8

IsNoteOn(f) == Decodes(f) /\ HighNibble(f.bytes[1]) = 9

\* a note-on on the listen channel that carries a note number
ListenNoteOn(f) ==
    /\ IsNoteOn(f)
    /\ (f.bytes[1] % 16) + 1 = channel
    /\ Len(f.bytes) >= 2

\* the bitmask of a note: notes 60..66 give 1..7, any other the base value
MaskOfNote(n) == IF n \in 60..66 THEN n - 59 ELSE base_value

\* run_forever is in its read loop, or has left it
InLoop == pc = "RUNNING" \/ (pc \in {"STOPPED", "RAISED"} /\ proc = "killed")

-----------------------------------------------------------------------------
(* Properties *)

\* C1: a line that is one note-on message on the listen channel causes at
\* most one set_value call, however many of its characters have arrived.
C1_AtMostOneApplyPerLine == ListenNoteOn(Frame(line)) => applies <= 1

\* C2: whenever the line the source is emitting is a note-on message on the
\* listen channel, wherever it sits in the stream, the bitmask of its note
\* has been applied to the relays.
C2_EveryNoteOnApplied ==
    LET f == Frame(line)
    IN  ListenNoteOn(f) =>
            /\ emitted = MaskOfNote(f.bytes[2])
            /\ ReadMask(gpio) = MaskOfNote(f.bytes[2])

\* C3: when the buffer decodes to a note-off status, the decode attempt
\* called set_value with nothing and the three relay files are as before.
C3_NoteOffWritesNothing ==
    (InLoop /\ IsNoteOff(Frame(buffer))) => (emitted = NoAction /\ gpio = before)

C3_Witness == InLoop /\ IsNoteOff(Frame(buffer)) /\ ReadMask(gpio) # base_value

\* C4: once the capture has started, run_forever never ends with an error:
\* it is reading, or it has stopped at end-of-stream.
C4_LoopEndsOnlyAtEndOfStream ==
    proc # "none" => pc \in {"READLINE", "RUNNING", "STOPPED"}

\* C5: when the buffer decodes to a note-on on the listen channel with a
\* note number, set_value was called with the bitmask of that note (table
\* entry, else base value) and the relays read back that bitmask, whatever
\* data bytes follow the note number.
C5_NoteOnAppliesMaskOfFirstData ==
    LET f == Frame(buffer)
    IN  (InLoop /\ ListenNoteOn(f)) =>
            /\ emitted = MaskOfNote(f.bytes[2])
            /\ ReadMask(gpio) = MaskOfNote(f.bytes[2])

C5_Witness ==
    LET f == Frame(buffer)
    IN  /\ InLoop
        /\ ListenNoteOn(f)
        /\ f.bytes = <<147, 60, 62>>
        /\ emitted = 1
        /\ base_value = 5

\* C6: in the loop, unless the buffer decodes to a note-on on the listen
\* channel with a note number, the latest decode attempt called set_value
\* with nothing and left the three relay files as they were.
C6_OnlyListenNoteOnActs ==
    (InLoop /\ ~ListenNoteOn(Frame(buffer))) => (emitted = NoAction /\ gpio = before)

C6_Witness ==
    LET f == Frame(buffer)
    IN  /\ pc = "RUNNING"
        /\ IsNoteOn(f)
        /\ (f.bytes[1] % 16) + 1 # channel
        /\ Len(f.bytes) = 2
        /\ f.bytes[2] = 60
        /\ ReadMask(gpio) # 1

\* C7: while the buffer holds a token that is not hexadecimal, the decode
\* attempt raises nothing, calls set_value with nothing, leaves the relays
\* as they were, and the buffer still holds every character of the line.
C7_MalformedTokenIsAbsorbed ==
    (InLoop /\ Malformed(Frame(buffer))) =>
        /\ pc # "RAISED"
        /\ emitted = NoAction
        /\ gpio = before
        /\ buffer = line

C7_Witness ==
    LET f == Frame(buffer)
    IN  /\ pc = "RUNNING"
        /\ Malformed(f)
        /\ Len(f.bytes) = 2
        /\ f.bytes[1] = 147
        /\ ReadMask(gpio) # base_value

\* C8: in the loop the buffer holds exactly the characters received since
\* the last newline, a newline leaves it empty without a decode attempt,
\* and the action of the latest decode attempt is the one those characters
\* alone determine.
C8_NewlineResets ==
    LET f == Frame(line)
    IN  InLoop =>
            /\ buffer = line
            /\ buffer = <<>> => (emitted = NoAction /\ gpio = before /\ applies = 0)
            /\ emitted = IF ListenNoteOn(f) THEN MaskOfNote(f.bytes[2]) ELSE NoAction

C8_Witness ==
    /\ pc = "RUNNING"
    /\ ListenNoteOn(Frame(buffer))
    /\ emitted = base_value
    /\ ReadMask(before) = 1

\* C9: after set_value(m) with m in 0..7, relay i reads ON exactly when
\* bit i of m is set, so the three outputs read back m.
C9_ApplyThenReadRoundTrip ==
    (emitted # NoAction /\ pc # "RAISED") =>
        /\ emitted \in 0..7
        /\ \A i \in RelayIndex :
              (RelayValue(gpio, i) = "ON") <=> ((emitted \div (2 ^ i)) % 2 = 1)
        /\ \A i \in RelayIndex : RelayValue(gpio, i) \in {"ON", "OFF"}
        /\ ReadMask(gpio) = emitted

C9_Witness == pc = "RUNNING" /\ emitted = 2 /\ ReadMask(before) = 5

\* C10: nothing is started or read before the base value is applied, and
\* from then until the loop begins, whatever the first line holds, the
\* relays read the base value.
C10_BaseAppliedBeforeFirstRead ==
    /\ pc = "CREATED" => (proc = "none" /\ line = <<>>)
    /\ proc # "none" => pc \notin {"CREATED", "BASE_APPLIED"}
    /\ pc \in {"BASE_APPLIED", "READLINE"} =>
          (emitted \in {base_value, NoAction} /\ ReadMask(gpio) = base_value)
    /\ (pc = "READLINE" /\ line # <<>>) => ReadMask(before) = base_value

C10_Witness == pc = "READLINE" /\ line # <<>> /\ base_value = 5 /\ ReadMask(before) = 5

\* the characters of the capture output up to the next newline
RECURSIVE RestOfLine(_)
RestOfLine(chars) ==
    IF chars = <<>> \/ Head(chars) = "\n" THEN <<>>
    ELSE <<Head(chars)>> \o RestOfLine(Tail(chars))

\* the bank exists and is referenced
BankAlive == pc \in {"CREATED", "RAISED", "BASE_APPLIED"}

\* C11: when a Relay() raises during the construction of the bank, no bank
\* comes to exist, and once the finalizers of the relays built so far have
\* run, no channel that the program exported is still exported.
C11_FailedConstructionReleasesAll ==
    (pc = "INIT_FAILED" /\ \A i \in RelayIndex : relay[i] # "garbage") =>
        \A i \in RelayIndex : prior[i] = "none" => ~exported[i]

\* C12: after set_value(m) with m in 0..7, every relay whose files can be
\* opened reads bit i of m, also when the write of a relay before it failed.
C12_FailedWriteDoesNotStopLaterWrites ==
    (pc \in {"CREATED", "RAISED"} /\ emitted \in 0..7) =>
        \A i \in RelayIndex :
            RelayFilesOpen(i) =>
                ((RelayValue(gpio, i) = "ON") <=> ((emitted \div (2 ^ i)) % 2 = 1))

\* C13: run_forever does not end with an exception while the buffer holds a
\* note-on for the listen channel: an error of the relay files does not
\* stop the loop.
C13_HardwareErrorKeepsLoop == ListenNoteOn(Frame(buffer)) => pc # "RAISED"

\* C14: once a read has nothing more to return (the capture output is closed
\* or the process has exited), run_forever eventually leaves the loop and
\* stops with the process reaped, without raising.
C14_EndOfStreamLeadsToStopped ==
    (pc \in {"READLINE", "RUNNING"} /\ proc \in {"closed", "exited"})
        ~> (pc = "STOPPED" /\ proc = "killed")

C14_Witness == pc = "STOPPED" /\ proc = "killed" /\ buffer # <<>>

\* C15: whenever run_forever has ended after the capture process was
\* started, by end of stream or by an exception of the callback, the
\* process has been killed; and it is killed only then.
C15_CaptureKilledOnEveryExit ==
    /\ (pc \in {"STOPPED", "RAISED"} /\ proc # "none") => proc = "killed"
    /\ proc = "killed" => pc \in {"STOPPED", "RAISED"}

C15_Witness ==
    /\ pc = "RAISED"
    /\ proc = "killed"
    /\ ListenNoteOn(Frame(buffer))
    /\ emitted = 7

\* C16: once a bank that was built has been dropped and the finalizer of a
\* relay has returned, the direction of its channel is what it was before
\* the relay was set up.
C16_ReleaseRestoresDirection ==
    pc = "DROPPED" =>
        \A i \in RelayIndex : relay[i] = "released" => direction[i] = prior[i]

\* C17: _shut_down never raises: every finalizer that has run wrote OFF,
\* tried the unexport and returned.
C17_ReleaseNeverFails == \A i \in RelayIndex : relay[i] # "release_raised"

\* C18: set_value with a value outside 0..7, handed in by a caller or taken
\* from the base value at the start of run_forever, raises and leaves every
\* relay as it was.
C18_OutOfRangeRejectedBeforeAnyWrite ==
    (BankAlive /\ emitted # NoAction /\ emitted \notin 0..7) =>
        (pc = "RAISED" /\ gpio = before)

C18_Witness == pc = "RAISED" /\ emitted = 13 /\ ReadMask(gpio) = 2 /\ broken = {}

\* C19: a decode step calls set_value only when every token of the buffer
\* has exactly two hex digits, so that every byte lies in 0..255.
C19_OnlyTwoDigitTokensAct ==
    LET f == Frame(buffer)
    IN  (InLoop /\ emitted # NoAction) =>
            \A k \in 1..Len(f.tokens) : Len(f.tokens[k]) = 2 /\ f.bytes[k] \in 0..255

\* C20: while the characters of a note-on for the listen channel and a mapped
\* note arrive, every bitmask applied is the one of the complete note number.
C20_NoMaskFromPartialNote ==
    LET whole == Frame(line \o RestOfLine(pending))
    IN  (pc = "RUNNING" /\ emitted # NoAction /\ ListenNoteOn(whole)
            /\ whole.bytes[2] \in 60..66) =>
            emitted = whole.bytes[2] - 59

====
